---- MODULE Spec2Model ----
(***************************************************************************)
(* A model of the research assistant: the orchestrator (orchestrator.py),  *)
(* the HTTP handlers that drive it (backend.py) and the PubMed client      *)
(* (pubmed_utils.py).                                                      *)
(*                                                                         *)
(* A text is a sequence of tokens; a token is a TLA+ string standing for   *)
(* one character or for one fixed fragment of a prompt template.           *)
(***************************************************************************)
EXTENDS Integers, Sequences, FiniteSets, TLC

VARIABLES
    orchestrator,   \* orchestrator.py: the module global `orchestrator`
    constructed,    \* how many times ResearchOrchestrator() has been constructed
    req,            \* the request handlers in flight, one per slot
    store,          \* the rows of the submission table, in insertion order
    cm,             \* one call of _collect_messages: its stream and its result
    pm              \* one call of search_pubmed

vars == <<orchestrator, constructed, req, store, cm, pm>>

(***************************************************************************)
(* Bounds of the model.                                                    *)
(***************************************************************************)
NumReq == 2          \* request handlers that can be in flight together

Req == 1..NumReq

(***************************************************************************)
(* Texts.                                                                  *)
(***************************************************************************)
Min(a, b) == IF a < b THEN a ELSE b

Range(s) == {s[i] : i \in DOMAIN s}

\* Python's s[:n] for n >= 0
Take(s, n) == SubSeq(s, 1, Min(n, Len(s)))

\* t occurs in s as a contiguous run of tokens
Contains(s, t) ==
    \E i \in 0..(Len(s) - Len(t)) : SubSeq(s, i + 1, i + Len(t)) = t

\* Python's sep.join(parts)
RECURSIVE Join(_, _)
Join(sep, parts) ==
    IF parts = <<>> THEN <<>>
    ELSE IF Len(parts) = 1 THEN parts[1]
    ELSE parts[1] \o sep \o Join(sep, Tail(parts))

(***************************************************************************)
(* The items of a coordinator run's stream.  attr says whether the item    *)
(* has a `content` attribute; isText whether that content is a str (val is *)
(* then its characters) or a list (val is then its elements).              *)
(***************************************************************************)
TextItem(t) == [attr |-> TRUE, isText |-> TRUE, val |-> t]
ListItem(l) == [attr |-> TRUE, isText |-> FALSE, val |-> l]
ResultItem  == [attr |-> FALSE, isText |-> FALSE, val |-> <<>>]

\* Python's repr of a one-character str element
PyRepr(e) == <<"'", e, "'">>

\* str(message.content): a str is itself, a list is printed in brackets
PyStr(m) ==
    IF m.isText THEN m.val
    ELSE <<"[">> \o Join(<<", ">>, [i \in DOMAIN m.val |-> PyRepr(m.val[i])]) \o <<"]">>

\* mutant: only an item whose content is a str is kept
has_text_content(m) == m.attr /\ m.isText

\* hasattr(message, 'content')
has_content(m) == m.attr

\* the loop of _collect_messages: messages.append(str(message.content))
RECURSIVE collect_loop(_, _)
collect_loop(stream, messages) ==
    IF stream = <<>> THEN messages
    ELSE collect_loop(Tail(stream),
                      IF has_content(Head(stream))
                      THEN Append(messages, PyStr(Head(stream)))
                      ELSE messages)

collect_messages(stream) == Join(<<"\n">>, collect_loop(stream, <<>>))

(***************************************************************************)
(* Prompt templates of the orchestrator.                                   *)
(***************************************************************************)
lit_prompt(topic, max_papers) ==
    <<"Search for academic papers on: \"">> \o topic
        \o <<"\"\nFind up to ", ToString(max_papers),
             " relevant papers.\nReturn DOI, title, authors, abstract, and link for each.">>

\* mutant: the synthesis prompt is built without the literature text
syn_prompt_without_data(literature_data) ==
    <<"Analyze and summarize these papers:\n">>
        \o <<"\n\nCreate concise summaries with key findings.">>

syn_prompt(literature_data) ==
    <<"Analyze and summarize these papers:\n">> \o literature_data
        \o <<"\n\nCreate concise summaries with key findings.">>

ext_prompt(synthesis_data) ==
    <<"Based on these summaries:\n">> \o synthesis_data
        \o <<"\n\nPropose 5 future research extensions with:\n- Title\n- Description  \n- One-line solution approach\n- Difficulty level">>

\* mutant: the test is `if context is not None:`
explain_prompt_if_not_none(concept, context) ==
    <<"Explain this concept in simple terms: ">> \o concept
        \o (IF context.given
            THEN <<"\n\nContext: ">> \o context.text
            ELSE <<>>)
        \o <<"\n\nProvide: simple explanation, examples, analogies">>

\* `if context:` is false for None and for the empty string alike
explain_prompt(concept, context) ==
    <<"Explain this concept in simple terms: ">> \o concept
        \o (IF context.given /\ context.text # <<>>
            THEN <<"\n\nContext: ">> \o context.text
            ELSE <<>>)
        \o <<"\n\nProvide: simple explanation, examples, analogies">>

ContentLimit == 2000

\* mutant: the slice keeps one character too many
check_prompt_off_by_one(title, content) ==
    <<"Check this paper's formatting:\n\nTitle: ">> \o title
        \o <<"\n\nContent:\n">> \o Take(content, ContentLimit + 1)
        \o <<"...", "\n\nProvide:\n1. Formatting score (0-100)\n2. Missing sections\n3. Recommendations\n4. Overall assessment">>

check_prompt(title, content) ==
    <<"Check this paper's formatting:\n\nTitle: ">> \o title
        \o <<"\n\nContent:\n">> \o Take(content, ContentLimit)
        \o <<"...", "\n\nProvide:\n1. Formatting score (0-100)\n2. Missing sections\n3. Recommendations\n4. Overall assessment">>

(***************************************************************************)
(* The global instance.  None is 0; an instance is named by the number of  *)
(* the construction that made it.                                          *)
(***************************************************************************)
None == 0

\* mutant: the instance is built on every call
get_orchestrator_always_new(orch, n) ==
    [orchestrator |-> n + 1, constructed |-> n + 1]

get_orchestrator(orch, n) ==
    IF orch = None
    THEN [orchestrator |-> n + 1, constructed |-> n + 1]
    ELSE [orchestrator |-> orch, constructed |-> n]

(***************************************************************************)
(* A request handler.  kind is the endpoint; pc is "idle", "await" (the    *)
(* handler is suspended in a coordinator run) or "done"; prompts are the   *)
(* tasks given to team.run_stream so far and texts the collected results;  *)
(* state, value and exc are the outcome of the orchestrator's coroutine    *)
(* ("running", "returned" with value, "raised" with exc); failure records  *)
(* which coordinator run failed, and how; resp is the HTTP response.       *)
(***************************************************************************)
NoFailure == [stage |-> 0, exc |-> ""]

NoReq ==
    [kind |-> "none", pc |-> "idle", args |-> [none |-> TRUE], orch |-> None,
     submission_id |-> "", prompts |-> <<>>, texts |-> <<>>,
     state |-> "none", value |-> [none |-> TRUE], exc |-> "",
     failure |-> NoFailure, resp |-> [status |-> 0]]

\* the outcome of one coordinator run, as the awaiting coroutine sees it
Ran(stream) == [ok |-> TRUE, stream |-> stream, exc |-> ""]
Failed(e)   == [ok |-> FALSE, stream |-> <<>>, exc |-> e]

\* run_research_workflow up to its first await
workflow_begin(rq) ==
    [rq EXCEPT !.state = "running",
               !.prompts = <<[stage |-> "search",
                              text |-> lit_prompt(rq.args.topic, rq.args.max_papers)]>>]

\* mutant: a failed stage is caught and the texts so far are returned
workflow_returns_partial(rq, e) ==
    [rq EXCEPT !.state = "returned",
               !.value = [topic |-> rq.args.topic, texts |-> rq.texts,
                          status |-> "failed"]]

\* run_research_workflow has no except clause: an exception of an awaited
\* coordinator run leaves the coroutine as it is
workflow_raise(rq, e) == [rq EXCEPT !.state = "raised", !.exc = e]

\* run_research_workflow from the end of one coordinator run to the next
\* await, or to its return
workflow_resume(rq, outcome) ==
    IF ~outcome.ok
    THEN workflow_raise(rq, outcome.exc)
    ELSE LET data  == collect_messages(outcome.stream)
             texts == Append(rq.texts, data)
         IN  CASE Len(texts) = 1 ->
                    [rq EXCEPT !.texts = texts,
                               !.prompts = Append(@, [stage |-> "synthesize",
                                                      text |-> syn_prompt(data)])]
               [] Len(texts) = 2 ->
                    [rq EXCEPT !.texts = texts,
                               !.prompts = Append(@, [stage |-> "extend",
                                                      text |-> ext_prompt(data)])]
               [] OTHER ->
                    [rq EXCEPT !.texts = texts,
                               !.state = "returned",
                               !.value = [topic |-> rq.args.topic,
                                          literature |-> texts[1],
                                          synthesis |-> texts[2],
                                          extensions |-> texts[3],
                                          status |-> "completed"]]

explain_begin(rq) ==
    [rq EXCEPT !.state = "running",
               !.prompts = <<[stage |-> "explain",
                              text |-> explain_prompt(rq.args.concept, rq.args.context)]>>]

explain_resume(rq, outcome) ==
    IF ~outcome.ok
    THEN [rq EXCEPT !.state = "raised", !.exc = outcome.exc]
    ELSE LET explanation == collect_messages(outcome.stream)
         IN  [rq EXCEPT !.texts = Append(@, explanation),
                        !.state = "returned",
                        !.value = explanation]

check_begin(rq) ==
    [rq EXCEPT !.state = "running",
               !.prompts = <<[stage |-> "check",
                              text |-> check_prompt(rq.args.title, rq.args.content)]>>]

check_resume(rq, outcome) ==
    IF ~outcome.ok
    THEN [rq EXCEPT !.state = "raised", !.exc = outcome.exc]
    ELSE LET feedback == collect_messages(outcome.stream)
         IN  [rq EXCEPT !.texts = Append(@, feedback),
                        !.state = "returned",
                        !.value = [feedback |-> feedback]]

(***************************************************************************)
(* The handlers of backend.py around the orchestrator's coroutines.        *)
(***************************************************************************)
\* except Exception as e: raise HTTPException(status_code=500, detail=str(e))
http_500(rq, e) == [rq EXCEPT !.pc = "done", !.resp = [status |-> 500, detail |-> e]]

http_200(rq, body) == [rq EXCEPT !.pc = "done", !.resp = [status |-> 200, body |-> body]]

\* run_research, explain_concept, check_paper: what the handler does once
\* the orchestrator's coroutine has moved on
handler_after(rq) ==
    CASE rq.state = "raised"   -> http_500(rq, rq.exc)
      [] rq.state = "returned" ->
            http_200(rq, IF rq.kind = "explain"
                         THEN [concept |-> rq.args.concept, explanation |-> rq.value]
                         ELSE rq.value)
      [] OTHER -> rq

\* the orchestrator coroutine a handler is suspended in, resumed
resume(rq, outcome) ==
    CASE rq.kind = "research" -> workflow_resume(rq, outcome)
      [] rq.kind = "explain"  -> explain_resume(rq, outcome)
      [] OTHER                -> check_resume(rq, outcome)

(***************************************************************************)
(* Inputs: what a client may send and what a coordinator run may produce.  *)
(***************************************************************************)
MaxExtra == 2        \* content lengths run up to ContentLimit + MaxExtra

Topics    == {<<"t", "u">>}
Concepts  == {<<"c">>}
Contexts  == {[given |-> FALSE, text |-> <<>>],
              [given |-> TRUE, text |-> <<>>],
              [given |-> TRUE, text |-> <<"x">>]}
Titles    == {<<>>, <<"T">>, <<"T", "U">>}
Excs      == {"ModelError", "Cancelled"}

\* a content of n characters, each one naming its own position
Content(n) == [i \in 1..n |-> ToString(i)]

ShortContents == {Content(n) : n \in 0..2}
LongContents  ==
    {Content(n) : n \in (0..2) \cup ((ContentLimit - 1)..(ContentLimit + MaxExtra))}

Streams ==
    {<<ResultItem>>,
     <<TextItem(<<"a">>), ResultItem>>,
     <<TextItem(<<"a">>), TextItem(<<"b", "c">>), ResultItem>>}

(***************************************************************************)
(* Actions of the request handlers.  A handler runs from the arrival of    *)
(* its request to its first await in one step, and from the end of an      *)
(* awaited coordinator run to its next await, or to its response, in one   *)
(* step: the event loop runs one handler at a time between awaits.         *)
(***************************************************************************)
\* the handler's first lines: orch = get_orchestrator()
Enter(r, kind, args, submission_id) ==
    LET g == get_orchestrator(orchestrator, constructed)
    IN  /\ req[r].pc = "idle"
        /\ orchestrator' = g.orchestrator
        /\ constructed' = g.constructed
        /\ LET rq == [NoReq EXCEPT !.kind = kind, !.pc = "await", !.args = args,
                                   !.submission_id = submission_id,
                                   !.orch = g.orchestrator]
           IN  req' = [req EXCEPT ![r] =
                          CASE kind = "research" -> workflow_begin(rq)
                            [] kind = "explain"  -> explain_begin(rq)
                            [] OTHER             -> check_begin(rq)]
        /\ UNCHANGED <<store, cm, pm>>

ResearchRequest(r) ==
    \E topic \in Topics :
        Enter(r, "research", [topic |-> topic, max_papers |-> 5], "")

ExplainRequest(r) ==
    \E concept \in Concepts, context \in Contexts :
        Enter(r, "explain", [concept |-> concept, context |-> context], "")

CheckRequest(r) ==
    \E title \in {<<"T">>}, content \in ShortContents :
        Enter(r, "check", [title |-> title, content |-> content], "")

CheckRequestLong(r) ==
    \E title \in Titles, content \in LongContents :
        Enter(r, "check", [title |-> title, content |-> content], "")

Awaiting(r) == req[r].pc = "await" /\ req[r].kind \in {"research", "explain", "check"}

\* the awaited coordinator run ends with a stream
RunReturns(r) ==
    /\ Awaiting(r)
    /\ \E stream \in Streams :
          req' = [req EXCEPT ![r] = handler_after(resume(req[r], Ran(stream)))]
    /\ UNCHANGED <<orchestrator, constructed, store, cm, pm>>

\* the awaited coordinator run fails
RunFails(r) ==
    /\ Awaiting(r)
    /\ \E e \in Excs :
          req' = [req EXCEPT ![r] =
                     handler_after(resume(
                         [req[r] EXCEPT !.failure = [stage |-> Len(req[r].prompts),
                                                     exc |-> e]],
                         Failed(e)))]
    /\ UNCHANGED <<orchestrator, constructed, store, cm, pm>>

\* the response is sent and the handler is gone
Respond(r) ==
    /\ req[r].pc = "done"
    /\ req' = [req EXCEPT ![r] = NoReq]
    /\ UNCHANGED <<orchestrator, constructed, store, cm, pm>>

NoCall == [pc |-> "none"]

InitServer ==
    /\ orchestrator = None
    /\ constructed = 0
    /\ req = [r \in Req |-> NoReq]
    /\ store = <<>>

Init ==
    /\ InitServer
    /\ cm = NoCall
    /\ pm = NoCall

NextWorkflow ==
    \E r \in Req :
        \/ ResearchRequest(r)
        \/ ExplainRequest(r)
        \/ CheckRequest(r)
        \/ RunReturns(r)
        \/ RunFails(r)
        \/ Respond(r)

SpecWorkflow == Init /\ [][NextWorkflow]_vars

NextCheck ==
    \/ CheckRequestLong(1)
    \/ RunReturns(1)
    \/ RunFails(1)
    \/ Respond(1)

SpecCheck == Init /\ [][NextCheck]_vars

(***************************************************************************)
(* C1: in run_research_workflow the coordinator runs happen in the order   *)
(* search, synthesize, extend, a run starting only once the one before it  *)
(* has ended; the synthesis prompt contains the literature text verbatim   *)
(* and the extensions prompt contains the synthesis text verbatim.         *)
(***************************************************************************)
StageOrder == <<"search", "synthesize", "extend">>

C1_StagesInOrderAndChained ==
    \A r \in Req :
        req[r].kind = "research" =>
            LET p == req[r].prompts
                t == req[r].texts
            IN  /\ Len(p) \in 1..3
                /\ \A k \in DOMAIN p : p[k].stage = StageOrder[k]
                /\ Len(t) <= Len(p)
                /\ Len(p) <= Len(t) + 1
                /\ Len(p) >= 2 => Contains(p[2].text, t[1])
                /\ Len(p) >= 3 => Contains(p[3].text, t[2])

C1_Witness ==
    \E r \in Req :
        /\ req[r].kind = "research"
        /\ req[r].state = "returned"
        /\ Len(req[r].prompts) = 3
        /\ req[r].texts[1] = <<"a">>
        /\ req[r].texts[2] = <<"a", "\n", "b", "c">>

(***************************************************************************)
(* C2: when the coordinator run of a stage of run_research_workflow fails, *)
(* the coroutine raises that very exception, returns no result, starts no  *)
(* later stage, and the request ends without a WorkflowResult.             *)
(***************************************************************************)
C2_StageFailureFailsWorkflow ==
    \A r \in Req :
        (req[r].kind = "research" /\ req[r].failure.stage # 0) =>
            /\ req[r].state = "raised"
            /\ req[r].exc = req[r].failure.exc
            /\ req[r].value = NoReq.value
            /\ Len(req[r].prompts) = req[r].failure.stage
            /\ Len(req[r].texts) = req[r].failure.stage - 1
            /\ req[r].pc = "done"
            /\ req[r].resp = [status |-> 500, detail |-> req[r].failure.exc]

C2_Witness ==
    \E r \in Req :
        /\ req[r].kind = "research"
        /\ req[r].failure.stage = 3
        /\ req[r].texts = <<<<"a">>, <<"a">>>>
        /\ req[r].resp.status = 500

(***************************************************************************)
(* C4: ResearchOrchestrator is constructed at most once, on the first call *)
(* of get_orchestrator; every handler gets that instance, and the global   *)
(* keeps it: it is the instance of the one construction from then on.      *)
(***************************************************************************)
C4_OneOrchestrator ==
    /\ constructed <= 1
    /\ orchestrator = constructed
    /\ \A r \in Req : req[r].pc # "idle" => req[r].orch = 1

C4_Witness ==
    /\ constructed = 1
    /\ \A r \in Req : req[r].pc = "await" /\ req[r].orch = orchestrator
    /\ \E r1, r2 \in Req : req[r1].kind # req[r2].kind

(***************************************************************************)
(* C6: the prompt of check_paper holds the characters of content at        *)
(* positions 0..1999, in order, and no character of a later position; the  *)
(* collected text is returned in a record whose only field is feedback.    *)
(* (Every character of a content names its position and occurs nowhere     *)
(* else, so membership in the prompt is membership by position.)           *)
(***************************************************************************)
C6_ContentCutAt2000 ==
    \A r \in Req :
        req[r].kind = "check" =>
            LET content == req[r].args.content
                p       == req[r].prompts[1].text
                kept    == IF Len(content) < 2000 THEN Len(content) ELSE 2000
            IN  /\ \E k \in 0..(Len(p) - kept) : \A i \in 1..kept : p[k + i] = content[i]
                /\ \A i \in DOMAIN content : i > 2000 => content[i] \notin Range(p)
                /\ Len(p) = Len(req[r].args.title) + kept + 4
                /\ req[r].state = "returned" =>
                      /\ DOMAIN req[r].value = {"feedback"}
                      /\ req[r].value.feedback = req[r].texts[1]
                      /\ req[r].resp = [status |-> 200, body |-> req[r].value]

C6_Witness ==
    \E r \in Req :
        /\ req[r].kind = "check"
        /\ Len(req[r].args.content) = 2001
        /\ req[r].state = "returned"
        /\ req[r].value.feedback # <<>>

(***************************************************************************)
(* _collect_messages on its own: the stream is any sequence of at most     *)
(* MaxItems items.                                                         *)
(***************************************************************************)
MaxItems == 3

Items ==
    {TextItem(<<"a">>), TextItem(<<>>), TextItem(<<"b", "\n">>),
     ListItem(<<"x", "y">>), ResultItem}

RECURSIVE SeqsUpTo(_, _)
SeqsUpTo(S, n) ==
    IF n = 0 THEN {<<>>}
    ELSE LET shorter == SeqsUpTo(S, n - 1)
         IN  shorter \cup {Append(q, x) : q \in shorter, x \in S}

InitCollect ==
    /\ InitServer
    /\ pm = NoCall
    /\ \E stream \in SeqsUpTo(Items, MaxItems) :
          cm = [pc |-> "call", stream |-> stream, result |-> <<>>]

Collect ==
    /\ cm.pc = "call"
    /\ cm' = [cm EXCEPT !.pc = "done", !.result = collect_messages(cm.stream)]
    /\ UNCHANGED <<orchestrator, constructed, req, store, pm>>

SpecCollect == InitCollect /\ [][Collect]_vars

\* the parts, each followed by a newline, less the last newline
RECURSIVE Lines(_)
Lines(parts) ==
    IF parts = <<>> THEN <<>> ELSE parts[1] \o <<"\n">> \o Lines(Tail(parts))

NewlineJoined(parts) ==
    IF parts = <<>> THEN <<>> ELSE SubSeq(Lines(parts), 1, Len(Lines(parts)) - 1)

(***************************************************************************)
(* C5 as stated: the result is the contents of the items that are turns    *)
(* with textual content, in arrival order, joined by a newline; every      *)
(* other item contributes nothing.                                         *)
(***************************************************************************)
C5_OnlyTextualTurns ==
    cm.pc = "done" =>
        LET turns == SelectSeq(cm.stream, LAMBDA m : m.attr /\ m.isText)
        IN  cm.result = NewlineJoined([i \in DOMAIN turns |-> turns[i].val])

(***************************************************************************)
(* C5 as amended: the result is str(content) of every item that has a      *)
(* content attribute, textual or not, in arrival order, joined by a        *)
(* newline; only the items without a content attribute are skipped.        *)
(***************************************************************************)
C5_EveryItemWithContent ==
    cm.pc = "done" =>
        LET kept == SelectSeq(cm.stream, LAMBDA m : m.attr)
        IN  cm.result = NewlineJoined([i \in DOMAIN kept |-> PyStr(kept[i])])

C5_Witness ==
    /\ cm.pc = "done"
    /\ cm.stream = <<TextItem(<<"a">>), ListItem(<<"x", "y">>), ResultItem>>
    /\ cm.result = <<"a", "\n", "[", "'", "x", "'", ", ", "'", "y", "'", "]">>

(***************************************************************************)
(* search_pubmed.  A dict is a record: a key is present when it is in the  *)
(* record's DOMAIN.  An author entry either has a "name" or has none; the  *)
(* author at position i of an upstream list is named by i.  elocationid,   *)
(* when present, is a str (its characters) or a value of another type.     *)
(***************************************************************************)
MaxAuthors == 4      \* upstream author lists have at most MaxAuthors entries

AuthorsKept == 3

PubIds == {"101", "102", "103"}

\* the id lists of an esearch answer: no id twice
IdLists ==
    {ids \in SeqsUpTo(PubIds, Cardinality(PubIds)) :
        \A i, j \in DOMAIN ids : ids[i] = ids[j] => i = j}

Named(i) == [name |-> ToString(i)]
Unnamed  == [affiliation |-> "none"]

\* upstream author lists: every entry named, or one entry without a name
AuthorLists ==
    {[i \in 1..n |-> IF i = u THEN Unnamed ELSE Named(i)] :
        n \in 0..MaxAuthors, u \in 0..MaxAuthors}

StrValue(t) == [isStr |-> TRUE, text |-> t]
OtherValue  == [isStr |-> FALSE, text |-> <<>>]

PaperDatas ==
    {[authors |-> a, title |-> <<"T">>, fulljournalname |-> <<"J">>,
      pubdate |-> <<"2020">>, elocationid |-> StrValue(<<"doi: ", "10.1/x">>)] :
        a \in AuthorLists}
    \cup {[uid |-> "u"],
          [title |-> <<"T">>, elocationid |-> StrValue(<<"pii: ", "S1">>)],
          [authors |-> <<Named(1), Named(2)>>, title |-> <<"T">>,
           elocationid |-> OtherValue]}

\* the "result" of an esummary answer for ids: a record for each id of some
\* of them
FetchDatas(ids) ==
    UNION {[D -> PaperDatas] : D \in SUBSET Range(ids)}

NetErrors == {"transport", "status", "body"}

\* dict.get(key, default)
Get(d, key, default) == IF key \in DOMAIN d THEN d[key] ELSE default

\* str.replace(old, ""), old being one token
Remove(text, old) == SelectSeq(text, LAMBDA c : c # old)

\* mutant: the slice keeps one entry too many
extract_authors_off_by_one(paper_data) ==
    LET first == Take(Get(paper_data, "authors", <<>>), AuthorsKept + 1)
        named == SelectSeq(first, LAMBDA author : "name" \in DOMAIN author)
    IN  [i \in DOMAIN named |-> named[i].name]

\* for author in paper_data.get("authors", [])[:3]:
\*     if "name" in author: authors.append(author["name"])
extract_authors(paper_data) ==
    LET first == Take(Get(paper_data, "authors", <<>>), AuthorsKept)
        named == SelectSeq(first, LAMBDA author : "name" \in DOMAIN author)
    IN  [i \in DOMAIN named |-> named[i].name]

\* the body of the inner try raises: fetch_data["result"][paper_id] has no
\* such key, or elocationid is no str and has no replace
extraction_raises(paper_id, result) ==
    \/ paper_id \notin DOMAIN result
    \/ ~Get(result[paper_id], "elocationid", StrValue(<<>>)).isStr

make_paper(paper_id, paper_data) ==
    [pmid    |-> paper_id,
     title   |-> Get(paper_data, "title", <<>>),
     authors |-> extract_authors(paper_data),
     journal |-> Get(paper_data, "fulljournalname", <<>>),
     pubdate |-> Get(paper_data, "pubdate", <<>>),
     link    |-> <<"https://pubmed.ncbi.nlm.nih.gov/", paper_id, "/">>,
     doi     |-> Remove(Get(paper_data, "elocationid", StrValue(<<>>)).text, "doi: ")]

RECURSIVE paper_loop(_, _, _)

\* mutant: a record that cannot be read ends the loop
abort_batch(rest, result, papers) == papers

\* except Exception: continue
skip_paper(rest, result, papers) == paper_loop(rest, result, papers)

\* for paper_id in ids: try: ... papers.append(paper)
paper_loop(ids, result, papers) ==
    IF ids = <<>> THEN papers
    ELSE IF extraction_raises(Head(ids), result)
         THEN skip_paper(Tail(ids), result, papers)
         ELSE paper_loop(Tail(ids), result,
                         Append(papers, make_paper(Head(ids), result[Head(ids)])))

\* mutant: the exception leaves search_pubmed
on_exception_raise(call) == [call EXCEPT !.pc = "done", !.outcome = "raised"]

\* the outer except Exception: return []
on_exception(call) ==
    [call EXCEPT !.pc = "done", !.outcome = "returned", !.value = <<>>]

NoError == [call |-> "none", kind |-> "none"]

InitPubmed ==
    /\ InitServer
    /\ cm = NoCall
    /\ pm = [pc |-> "esearch", ids |-> <<>>, result |-> <<>>, fetched |-> FALSE,
             searches |-> 0, fetches |-> 0, error |-> NoError,
             outcome |-> "none", value |-> <<>>]

\* requests.get(search_url), raise_for_status() or response.json() raises
SearchFails ==
    /\ pm.pc = "esearch"
    /\ \E kind \in NetErrors :
          pm' = on_exception([pm EXCEPT !.searches = @ + 1,
                                        !.error = [call |-> "esearch", kind |-> kind]])
    /\ UNCHANGED <<orchestrator, constructed, req, store, cm>>

\* the id search answers; `if not ids: return []`
SearchReturns ==
    /\ pm.pc = "esearch"
    /\ \E ids \in IdLists :
          pm' = IF ids = <<>>
                THEN [pm EXCEPT !.searches = @ + 1, !.pc = "done",
                                !.outcome = "returned", !.value = <<>>]
                ELSE [pm EXCEPT !.searches = @ + 1, !.ids = ids, !.pc = "esummary"]
    /\ UNCHANGED <<orchestrator, constructed, req, store, cm>>

\* requests.get(fetch_url), raise_for_status() or response.json() raises
FetchFails ==
    /\ pm.pc = "esummary"
    /\ \E kind \in NetErrors :
          pm' = on_exception([pm EXCEPT !.fetches = @ + 1,
                                        !.error = [call |-> "esummary", kind |-> kind]])
    /\ UNCHANGED <<orchestrator, constructed, req, store, cm>>

\* the metadata fetch answers and the records are read
FetchReturns ==
    /\ pm.pc = "esummary"
    /\ \E result \in FetchDatas(pm.ids) :
          pm' = [pm EXCEPT !.fetches = @ + 1, !.result = result, !.fetched = TRUE,
                           !.pc = "done", !.outcome = "returned",
                           !.value = paper_loop(pm.ids, result, <<>>)]
    /\ UNCHANGED <<orchestrator, constructed, req, store, cm>>

NextPubmed == SearchFails \/ SearchReturns \/ FetchFails \/ FetchReturns

SpecPubmed == InitPubmed /\ [][NextPubmed]_vars

\* the upstream author list of a returned paper
UpstreamAuthors(paper) ==
    IF "authors" \in DOMAIN pm.result[paper.pmid]
    THEN pm.result[paper.pmid].authors
    ELSE <<>>

(***************************************************************************)
(* C7 as stated: a returned record has at most 3 authors, and when the     *)
(* upstream list has more than 3 entries it has exactly 3: the first 3 of  *)
(* the upstream list, in order.                                            *)
(***************************************************************************)
C7_ExactlyFirstThree ==
    pm.pc = "done" =>
        \A k \in DOMAIN pm.value :
            LET paper == pm.value[k]
                up    == UpstreamAuthors(paper)
            IN  /\ Len(paper.authors) <= 3
                /\ Len(up) > 3 =>
                      /\ Len(paper.authors) = 3
                      /\ \A j \in 1..3 :
                            /\ "name" \in DOMAIN up[j]
                            /\ paper.authors[j] = up[j].name

(***************************************************************************)
(* C7 as amended: a returned record has at most 3 authors: the names of    *)
(* those of the first 3 upstream entries that carry a name, in order; so   *)
(* exactly the first 3 when the upstream list has more than 3 entries and  *)
(* each of its first 3 carries a name.                                     *)
(***************************************************************************)
C7_NamedAmongFirstThree ==
    pm.pc = "done" =>
        \A k \in DOMAIN pm.value :
            LET paper == pm.value[k]
                up    == UpstreamAuthors(paper)
                first == {j \in DOMAIN up : j <= 3}
                named == {j \in first : "name" \in DOMAIN up[j]}
                rank(j) == Cardinality({i \in named : i <= j})
            IN  /\ Len(paper.authors) <= 3
                /\ Len(paper.authors) = Cardinality(named)
                /\ \A j \in named : paper.authors[rank(j)] = up[j].name
                /\ (Len(up) > 3 /\ named = first) =>
                      paper.authors = <<up[1].name, up[2].name, up[3].name>>

C7_Witness ==
    /\ pm.pc = "done"
    /\ \E k \in DOMAIN pm.value :
          /\ UpstreamAuthors(pm.value[k]) = <<Named(1), Unnamed, Named(3), Named(4)>>
          /\ pm.value[k].authors = <<"1", "3">>
    /\ \E k \in DOMAIN pm.value :
          /\ UpstreamAuthors(pm.value[k]) = <<Named(1), Named(2), Named(3), Named(4)>>
          /\ pm.value[k].authors = <<"1", "2", "3">>

(***************************************************************************)
(* C8: when the id search returns N ids and the metadata of exactly one of *)
(* them cannot be read (it is missing from the answer, or a field of it    *)
(* has the wrong type), search_pubmed returns N-1 records: one for each    *)
(* other id, in the order of the id list.                                  *)
(***************************************************************************)
Malformed(id) ==
    \/ id \notin DOMAIN pm.result
    \/ /\ "elocationid" \in DOMAIN pm.result[id]
       /\ ~pm.result[id].elocationid.isStr

C8_OneMalformedSkippedAlone ==
    (pm.pc = "done" /\ pm.fetched
        /\ Cardinality({i \in DOMAIN pm.ids : Malformed(pm.ids[i])}) = 1) =>
        LET good == SelectSeq(pm.ids, LAMBDA id : ~Malformed(id))
        IN  /\ pm.outcome = "returned"
            /\ Len(pm.value) = Len(pm.ids) - 1
            /\ [k \in DOMAIN pm.value |-> pm.value[k].pmid] = good

C8_Witness ==
    /\ pm.pc = "done"
    /\ pm.ids = <<"102", "103", "101">>
    /\ "103" \in DOMAIN pm.result
    /\ Malformed("103")
    /\ ~Malformed("102")
    /\ Malformed("101") = FALSE
    /\ Len(pm.value) = 2
    /\ pm.value[2].pmid = "101"

(***************************************************************************)
(* C9: search_pubmed never raises and never retries: each of the two       *)
(* network calls is made at most once; with no ids it returns the empty    *)
(* list without the metadata fetch; when a call fails it returns the empty *)
(* list.                                                                   *)
(***************************************************************************)
C9_DegradesToEmpty ==
    /\ pm.pc # "none" =>
          /\ pm.searches <= 1
          /\ pm.fetches <= 1
          /\ pm.outcome # "raised"
    /\ pm.pc = "done" =>
          /\ pm.outcome = "returned"
          /\ pm.ids = <<>> => (pm.value = <<>> /\ pm.fetches = 0)
          /\ pm.error # NoError => pm.value = <<>>
          /\ pm.error.call = "esearch" => (pm.searches = 1 /\ pm.fetches = 0)
          /\ pm.error.call = "esummary" => (pm.searches = 1 /\ pm.fetches = 1)

C9_Witness ==
    /\ pm.pc = "done"
    /\ pm.error = [call |-> "esummary", kind |-> "body"]
    /\ pm.ids # <<>>
    /\ pm.outcome = "returned"
    /\ pm.value = <<>>

(***************************************************************************)
(* The submission store and its two handlers.  The table and its session   *)
(* (database.py) are not among the source files: a row is added as it is   *)
(* given, with no check against the rows already there, and a lookup       *)
(* returns the first row with the identifier.                              *)
(***************************************************************************)
MaxStore == 2        \* submissions are accepted while rows stored and in flight are fewer

\* uuid.uuid4().hex[:8].upper() after "SUB-": any of the 16^8 values
SubIds == {"SUB-0000000A", "SUB-0000000B"}

\* db.add(submission); db.commit()
db_add_commit(rows, row) == Append(rows, [row EXCEPT !.submitted_at = "now"])

\* db.query(PaperSubmission).filter(submission_id == id).first()
db_query_first(rows, id) ==
    LET hits == SelectSeq(rows, LAMBDA row : row.submission_id = id)
    IN  IF hits = <<>> THEN [found |-> FALSE] ELSE [found |-> TRUE, row |-> hits[1]]

\* Python's repr of a str: quoted, a newline written as backslash n
PyReprStr(t) ==
    <<"'">> \o [i \in DOMAIN t |-> IF t[i] = "\n" THEN "\\n" ELSE t[i]] \o <<"'">>

\* str(feedback) of the dict {"feedback": text}
PyStrFeedback(value) == <<"{'feedback': ">> \o PyReprStr(value.feedback) \o <<"}">>

\* PaperSubmission(submission_id=..., ..., status="submitted", feedback=str(feedback))
new_submission(rq) ==
    [submission_id   |-> rq.submission_id,
     title           |-> rq.args.title,
     authors         |-> Join(<<", ">>, rq.args.authors),
     content         |-> rq.args.content,
     professor_email |-> rq.args.professor_email,
     status          |-> "submitted",
     feedback        |-> PyStrFeedback(rq.value),
     submitted_at    |-> "unset"]

SubmitStreams == {<<TextItem(<<"a">>), TextItem(<<"b">>), ResultItem>>}

SubmitTitles == {<<"T">>, <<"U">>}

\* submit_paper up to its await of check_paper's coordinator run
SubmitRequest(r) ==
    /\ Len(store) + Cardinality({q \in Req : req[q].kind = "submit"
                                               /\ req[q].pc = "await"}) < MaxStore
    /\ \E id \in SubIds, title \in SubmitTitles :
          Enter(r, "submit",
                [title |-> title, authors |-> << <<"A">>, <<"B">> >>,
                 content |-> Content(2), professor_email |-> <<"p@u">>],
                id)

\* the check succeeds and the row is written
SubmitStored(r) ==
    /\ req[r].pc = "await" /\ req[r].kind = "submit"
    /\ \E stream \in SubmitStreams :
          LET rq == check_resume(req[r], Ran(stream))
          IN  /\ store' = db_add_commit(store, new_submission(rq))
              /\ req' = [req EXCEPT ![r] =
                            http_200(rq, [submission_id |-> rq.submission_id,
                                          status |-> "submitted",
                                          message |-> <<"Paper submitted to ">>
                                                         \o rq.args.professor_email,
                                          submitted_at |-> "now"])]
    /\ UNCHANGED <<orchestrator, constructed, cm, pm>>

\* the check succeeds and get_db, add or commit raises
SubmitStoreFails(r) ==
    /\ req[r].pc = "await" /\ req[r].kind = "submit"
    /\ \E stream \in SubmitStreams :
          req' = [req EXCEPT ![r] =
                     http_500(check_resume(req[r], Ran(stream)), "StoreError")]
    /\ UNCHANGED <<orchestrator, constructed, store, cm, pm>>

\* mutant: the row is written before the check, whose failure leaves it there
SubmitCheckFails_row_written_first(r) ==
    /\ req[r].pc = "await" /\ req[r].kind = "submit"
    /\ \E e \in Excs :
          LET rq == check_resume(
                        [req[r] EXCEPT !.failure = [stage |-> 1, exc |-> e]],
                        Failed(e))
          IN  /\ store' = db_add_commit(store,
                               new_submission([rq EXCEPT !.value = [feedback |-> <<>>]]))
              /\ req' = [req EXCEPT ![r] = http_500(rq, rq.exc)]
    /\ UNCHANGED <<orchestrator, constructed, cm, pm>>

\* the coordinator run of check_paper fails
SubmitCheckFails(r) ==
    /\ req[r].pc = "await" /\ req[r].kind = "submit"
    /\ \E e \in Excs :
          LET rq == check_resume(
                        [req[r] EXCEPT !.failure = [stage |-> 1, exc |-> e]],
                        Failed(e))
          IN  req' = [req EXCEPT ![r] = http_500(rq, rq.exc)]
    /\ UNCHANGED <<orchestrator, constructed, store, cm, pm>>

\* get_submission_status: no await, the whole handler is one step
GetSubmission(r) ==
    /\ req[r].pc = "idle"
    /\ \E id \in SubIds :
          LET rq  == [NoReq EXCEPT !.kind = "get", !.args = [submission_id |-> id]]
              hit == db_query_first(store, id)
          IN  req' = [req EXCEPT ![r] =
                         IF ~hit.found
                         THEN [rq EXCEPT !.pc = "done",
                                         !.resp = [status |-> 404,
                                                   detail |-> "Submission not found"]]
                         ELSE http_200(rq, [submission_id |-> hit.row.submission_id,
                                            title |-> hit.row.title,
                                            status |-> hit.row.status,
                                            submitted_at |-> hit.row.submitted_at,
                                            feedback |-> hit.row.feedback])]
    /\ UNCHANGED <<orchestrator, constructed, store, cm, pm>>

\* get_submission_status when get_db or the query raises
GetSubmissionFails(r) ==
    /\ req[r].pc = "idle"
    /\ \E id \in SubIds :
          req' = [req EXCEPT ![r] =
                     http_500([NoReq EXCEPT !.kind = "get",
                                            !.args = [submission_id |-> id]],
                              "StoreError")]
    /\ UNCHANGED <<orchestrator, constructed, store, cm, pm>>

NextSubmit ==
    \E r \in Req :
        \/ SubmitRequest(r)
        \/ SubmitStored(r)
        \/ SubmitStoreFails(r)
        \/ SubmitCheckFails(r)
        \/ GetSubmission(r)
        \/ GetSubmissionFails(r)
        \/ Respond(r)

SpecSubmit == Init /\ [][NextSubmit]_vars

(***************************************************************************)
(* C10: no two stored Submissions have the same identifier.                *)
(***************************************************************************)
C10_IdentifiersUnique ==
    \A i, j \in DOMAIN store :
        store[i].submission_id = store[j].submission_id => i = j

\* the body get_submission_status returns for a stored row
StatusOf(row) ==
    [submission_id |-> row.submission_id, title |-> row.title,
     status |-> row.status, submitted_at |-> row.submitted_at,
     feedback |-> row.feedback]

\* the rows stored under an identifier
RowsOf(id) == {i \in DOMAIN store : store[i].submission_id = id}

\* slot r runs get_submission_status in this step
GetStep(r) == req[r].pc = "idle" /\ req'[r].kind = "get"

(***************************************************************************)
(* C11: GET /api/submission/{id} answers 500 only when the store fails;    *)
(* otherwise an identifier that matches no stored Submission yields 404,   *)
(* and a stored identifier yields the record of the Submission stored      *)
(* under it: every Submission is answered with its own record.             *)
(***************************************************************************)
C11_LookupOutcomes ==
    [][\A r \in Req :
          GetStep(r) =>
              LET id   == req'[r].args.submission_id
                  resp == req'[r].resp
              IN  /\ resp.status \in {200, 404, 500}
                  /\ resp.status = 500 => resp.detail = "StoreError"
                  /\ (resp.status # 500 /\ RowsOf(id) = {}) => resp.status = 404
                  /\ (resp.status # 500 /\ RowsOf(id) # {}) =>
                        /\ resp.status = 200
                        /\ \A i \in RowsOf(id) : resp.body = StatusOf(store[i])
      ]_vars

(***************************************************************************)
(* The part of C11 that does not rest on identifiers being unique: 500     *)
(* only from a store failure, 404 for an identifier no Submission has, and *)
(* for a stored identifier the record of the first Submission under it.    *)
(***************************************************************************)
LookupOutcomesFirstRow ==
    [][\A r \in Req :
          GetStep(r) =>
              LET id   == req'[r].args.submission_id
                  resp == req'[r].resp
                  rows == RowsOf(id)
              IN  /\ resp.status = 500 => resp.detail = "StoreError"
                  /\ (resp.status # 500 /\ rows = {}) => resp.status = 404
                  /\ (resp.status # 500 /\ rows # {}) =>
                        /\ resp.status = 200
                        /\ \E i \in rows :
                              /\ \A j \in rows : i <= j
                              /\ resp.body = StatusOf(store[i])
      ]_vars

\* slot r's submit_paper goes from its await to its response in this step
SubmitEnds(r) ==
    req[r].kind = "submit" /\ req[r].pc = "await" /\ req'[r].pc = "done"

\* the stored feedback for a collected text: the text quoted, its newlines
\* escaped, inside the printed dict
IsStoredFeedback(fb, text) ==
    /\ Len(fb) = Len(text) + 4
    /\ fb[1] = "{'feedback': " /\ fb[2] = "'"
    /\ \A i \in DOMAIN text : fb[i + 2] = (IF text[i] = "\n" THEN "\\n" ELSE text[i])
    /\ fb[Len(fb) - 1] = "'" /\ fb[Len(fb)] = "}"

(***************************************************************************)
(* C13: no step changes or removes a stored Submission, and the store      *)
(* grows only in the step in which a submit_paper whose formatting check   *)
(* succeeded answers 200: by exactly one row, with the request's           *)
(* identifier and fields, status submitted and the printed result of its   *)
(* check.  When the coordinator run of check_paper fails the request ends  *)
(* with a 500 and the store is as it was.                                  *)
(***************************************************************************)
C13_StoreWrittenOnlyAfterCheck ==
    [][/\ \A i \in DOMAIN store : i \in DOMAIN store' /\ store'[i] = store[i]
       /\ store' # store =>
             \E r \in Req : SubmitEnds(r) /\ req'[r].resp.status = 200
       /\ \A r \in Req :
             SubmitEnds(r) =>
                 IF req'[r].failure.stage # 0
                 THEN /\ req'[r].resp = [status |-> 500, detail |-> req'[r].failure.exc]
                      /\ store' = store
                 ELSE IF req'[r].resp.status = 200
                 THEN /\ Len(store') = Len(store) + 1
                      /\ LET row == store'[Len(store')]
                         IN  /\ row.submission_id = req[r].submission_id
                             /\ row.submission_id = req'[r].resp.body.submission_id
                             /\ row.title = req[r].args.title
                             /\ row.content = req[r].args.content
                             /\ row.status = "submitted"
                             /\ IsStoredFeedback(row.feedback, req'[r].texts[1])
                 ELSE /\ req'[r].resp.status = 500
                      /\ store' = store
      ]_vars

C13_Witness ==
    /\ Len(store) = 1
    /\ store[1].status = "submitted"
    /\ \E r1, r2 \in Req :
          /\ req[r1].kind = "submit" /\ req[r1].pc = "done"
          /\ req[r1].resp.status = 200
          /\ req[r1].resp.body.submission_id = store[1].submission_id
          /\ req[r2].kind = "submit" /\ req[r2].pc = "done"
          /\ req[r2].failure.stage = 1
          /\ req[r2].resp.status = 500

\* p is the explain prompt for concept with the context block for text
ExplainWithBlock(p, concept, text) ==
    /\ Len(p) = Len(concept) + Len(text) + 3
    /\ p[1] = "Explain this concept in simple terms: "
    /\ \A i \in DOMAIN concept : p[1 + i] = concept[i]
    /\ p[2 + Len(concept)] = "\n\nContext: "
    /\ \A i \in DOMAIN text : p[2 + Len(concept) + i] = text[i]
    /\ p[Len(p)] = "\n\nProvide: simple explanation, examples, analogies"

\* p is the explain prompt for concept without a context block
ExplainWithoutBlock(p, concept) ==
    /\ Len(p) = Len(concept) + 2
    /\ p[1] = "Explain this concept in simple terms: "
    /\ \A i \in DOMAIN concept : p[1 + i] = concept[i]
    /\ p[Len(p)] = "\n\nProvide: simple explanation, examples, analogies"
    /\ "\n\nContext: " \notin Range(p)

(***************************************************************************)
(* C12 as stated: explain_concept builds one prompt and makes one          *)
(* coordinator run; the prompt has the context block if and only if a      *)
(* context was supplied, and without a supplied context it does not hold   *)
(* "Context:".                                                             *)
(***************************************************************************)
C12_BlockIffContextSupplied ==
    \A r \in Req :
        req[r].kind = "explain" =>
            /\ Len(req[r].prompts) = 1
            /\ Len(req[r].texts) <= 1
            /\ LET p == req[r].prompts[1].text
                   a == req[r].args
               IN  IF a.context.given
                   THEN ExplainWithBlock(p, a.concept, a.context.text)
                   ELSE ExplainWithoutBlock(p, a.concept)

(***************************************************************************)
(* C12 as amended: explain_concept builds one prompt and makes one         *)
(* coordinator run; the prompt has the context block if and only if a      *)
(* non-empty context was supplied; with no context, or with the empty      *)
(* string as context, no block is appended.                                *)
(***************************************************************************)
C12_BlockIffContextNonEmpty ==
    \A r \in Req :
        req[r].kind = "explain" =>
            /\ Len(req[r].prompts) = 1
            /\ req[r].prompts[1].stage = "explain"
            /\ Len(req[r].texts) <= 1
            /\ req[r].state = "returned" =>
                  (Len(req[r].texts) = 1 /\ req[r].value = req[r].texts[1])
            /\ LET p == req[r].prompts[1].text
                   a == req[r].args
               IN  IF a.context.given /\ Len(a.context.text) > 0
                   THEN ExplainWithBlock(p, a.concept, a.context.text)
                   ELSE ExplainWithoutBlock(p, a.concept)

C12_Witness ==
    \E r1, r2 \in Req :
        /\ req[r1].kind = "explain" /\ req[r1].state = "returned"
        /\ req[r1].args.context = [given |-> TRUE, text |-> <<>>]
        /\ req[r2].kind = "explain" /\ req[r2].state = "returned"
        /\ req[r2].args.context = [given |-> TRUE, text |-> <<"x">>]
        /\ "\n\nContext: " \in Range(req[r2].prompts[1].text)

====
